---- MODULE Spec2Model ----
(***************************************************************************)
(* Model of .github/compare-benchmarks.py: two JMH JSON result files are   *)
(* loaded into dicts keyed by (benchmark, sorted params), compared row by  *)
(* row, and the Markdown table is printed.                                 *)
(*                                                                         *)
(* JSON values are modelled as tagged records so that the isinstance       *)
(* tests, the .get defaults and the truthiness tests of the script are     *)
(* decided the way Python decides them.  Scores are integers; parameter    *)
(* values are JSON scalars (strings of one digit, or integers).            *)
(***************************************************************************)
EXTENDS Integers, Sequences, FiniteSets, TLC

\* The most list elements the two input files hold together.
MaxElems == 3

\* The em dash U+2014, written in ASCII.
EM_DASH == "&mdash;"

\* Marker of a key the JSON object does not have.
NoField == "<absent>"

(***************************************************************************)
(* JSON values                                                             *)
(***************************************************************************)
IntVal(v) == [t |-> "int", v |-> v]
StrVal(v) == [t |-> "str", v |-> v]

SAbsent == [t |-> "absent", n |-> 0, s |-> ""]
SNum(n) == [t |-> "num", n |-> n, s |-> ""]
SStr(s) == [t |-> "str", n |-> 0, s |-> s]

PAbsent == [shape |-> "absent", items |-> <<>>]
POther == [shape |-> "other", items |-> <<>>]
PDict(items) == [shape |-> "dict", items |-> items]

MAbsent == [shape |-> "absent", score |-> SAbsent, unit |-> NoField]
MOther == [shape |-> "other", score |-> SAbsent, unit |-> NoField]
MDict(score, unit) == [shape |-> "dict", score |-> score, unit |-> unit]

Entry(bench, params, metric) ==
    [shape |-> "dict", bench |-> bench, params |-> params, metric |-> metric]

\* A list element that is not a JSON object (a number, a string, ...).
NonRecord ==
    [shape |-> "other", bench |-> NoField, params |-> PAbsent, metric |-> MAbsent]

\* The value dict.get returns for a key the dict does not hold.
None ==
    [shape |-> "none", bench |-> NoField, params |-> PAbsent, metric |-> MAbsent]

\* The list elements the input files are drawn from.
Elements ==
    { NonRecord,
      Entry(NoField, PAbsent, MAbsent),
      Entry("A", PAbsent, MDict(SNum(100), "ops/s")),
      Entry("A", POther, MDict(SNum(110), "")),
      Entry("A", PDict(<<<<"n", StrVal(1)>>>>), MDict(SNum(0), "ms")),
      Entry("A", PDict(<<<<"n", IntVal(1)>>>>), MDict(SStr("fast"), NoField)),
      Entry("B", PDict(<<<<"n", StrVal(1)>>, <<"m", StrVal(2)>>>>),
            MDict(SNum(1234567), NoField)),
      Entry("B", PDict(<<<<"m", StrVal(2)>>, <<"n", StrVal(1)>>>>),
            MDict(SAbsent, "ms")),
      Entry("B", PAbsent, MOther) }

\* The top-level lists of at most n elements.
Lists(n) == UNION { [1..m -> Elements] : m \in 0..n }

\* What open() and json.load() make of a path: no such file, a file that
\* cannot be opened or decoded, text that is not JSON, JSON that is not a
\* list, or a list.
Files(n) ==
    { [kind |-> k, data |-> <<>>] :
          k \in {"missing", "unreadable", "malformed", "nonlist"} }
    \cup { [kind |-> "list", data |-> d] : d \in Lists(n) }

(***************************************************************************)
(* load                                                                    *)
(***************************************************************************)
\* Python's order on the strings that occur as names (code point order).
StrOrder == <<"", "A", "B", "m", "n">>

StrRank(s) == CHOOSE i \in 1..Len(StrOrder) : StrOrder[i] = s

\* a < b on two JSON scalars; "err" is the TypeError of str against int.
CmpVal(a, b) ==
    IF a = b THEN "eq"
    ELSE IF a.t # b.t THEN "err"
    ELSE IF a.v < b.v THEN "lt" ELSE "gt"

\* Comparison of two (name, value) tuples: the first unequal component decides.
CmpItem(x, y) ==
    IF x[1] # y[1]
    THEN IF StrRank(x[1]) < StrRank(y[1]) THEN "lt" ELSE "gt"
    ELSE CmpVal(x[2], y[2])

\* Comparison of two params tuples, from index i on.
RECURSIVE CmpItems(_, _, _)
CmpItems(p, q, i) ==
    IF i > Len(p) /\ i > Len(q) THEN "eq"
    ELSE IF i > Len(p) THEN "lt"
    ELSE IF i > Len(q) THEN "gt"
    ELSE IF p[i] = q[i] THEN CmpItems(p, q, i + 1)
    ELSE CmpItem(p[i], q[i])

\* Comparison of two keys (bench, params).
CmpKey(k1, k2) ==
    IF k1[1] # k2[1]
    THEN IF StrRank(k1[1]) < StrRank(k2[1]) THEN "lt" ELSE "gt"
    ELSE CmpItems(k1[2], k2[2], 1)

\* sorted(params.items()): the names of one object are distinct, so the
\* names alone decide and the values are never compared.
RECURSIVE SortedItems(_)
SortedItems(items) ==
    IF items = <<>> THEN <<>>
    ELSE LET i == CHOOSE j \in 1..Len(items) :
                      \A l \in 1..Len(items) :
                          StrRank(items[j][1]) <= StrRank(items[l][1])
             rest == [l \in 1..(Len(items) - 1) |->
                          IF l < i THEN items[l] ELSE items[l + 1]]
         IN  <<items[i]>> \o SortedItems(rest)

\* The key load gives an entry: bench defaults to "", params to {} when the
\* field is absent, falsy or not a dict.
KeyOf(e) ==
    << IF e.bench = NoField THEN "" ELSE e.bench,
       SortedItems(IF e.params.shape = "dict" THEN e.params.items ELSE <<>>) >>

EmptyDict == [k \in {} |-> None]

\* result[key] = e that keeps an entry the key already has.
Store_KeepFirst(result, key, e) ==
    [k \in DOMAIN result \cup {key} |->
        IF k \in DOMAIN result THEN result[k] ELSE e]

\* result[key] = e
Store(result, key, e) ==
    [k \in DOMAIN result \cup {key} |-> IF k = key THEN e ELSE result[k]]

\* The loop of load over data[i..], starting from result.
RECURSIVE LoadFrom(_, _, _)
LoadFrom(data, i, result) ==
    IF i > Len(data) THEN result
    ELSE IF data[i].shape # "dict" THEN LoadFrom(data, i + 1, result)
    ELSE LoadFrom(data, i + 1, Store(result, KeyOf(data[i]), data[i]))

(***************************************************************************)
(* Number formatting                                                       *)
(***************************************************************************)
RECURSIVE Pow10(_)
Pow10(k) == IF k = 0 THEN 1 ELSE 10 * Pow10(k - 1)

\* Number of decimal digits of n >= 0.
RECURSIVE NumDigits(_)
NumDigits(n) == IF n < 10 THEN 1 ELSE 1 + NumDigits(n \div 10)

\* a / b rounded to the nearest integer, ties to even (a >= 0, b > 0).
RoundDiv(a, b) ==
    LET q == a \div b
        r == a % b
    IN  IF 2 * r < b THEN q
        ELSE IF 2 * r > b THEN q + 1
        ELSE IF q % 2 = 0 THEN q ELSE q + 1

\* x written with exactly w digits.
RECURSIVE Pad(_, _)
Pad(x, w) == IF w = 0 THEN "" ELSE Pad(x \div 10, w - 1) \o ToString(x % 10)

\* The w fraction digits x without their trailing zeros, with the point.
RECURSIVE Fraction(_, _)
Fraction(x, w) ==
    IF x = 0 THEN ""
    ELSE IF x % 10 = 0 THEN Fraction(x \div 10, w - 1)
    ELSE "." \o Pad(x, w)

\* f"{float(n):.6g}" for an integer n >= 0.
Fmt6g(n) ==
    IF n < Pow10(6) THEN ToString(n)
    ELSE LET e0 == NumDigits(n) - 1
             m0 == RoundDiv(n, Pow10(e0 - 5))
             e == IF m0 = Pow10(6) THEN e0 + 1 ELSE e0
             m == IF m0 = Pow10(6) THEN Pow10(5) ELSE m0
         IN  ToString(m \div Pow10(5)) \o Fraction(m % Pow10(5), 5)
             \o "e+" \o (IF e < 10 THEN "0" ELSE "") \o ToString(e)

\* f"{delta:.3f}x ({(delta - 1.0) * 100:+.1f}%)" for delta = c / b, b > 0;
\* the multiplication sign U+00D7 is written x.
FmtDelta(c, b) ==
    LET t == RoundDiv(c * 1000, b)
        d == IF c < b THEN b - c ELSE c - b
        p == RoundDiv(d * 1000, b)
    IN  ToString(t \div 1000) \o "." \o Pad(t % 1000, 3) \o "x ("
        \o (IF c < b THEN "-" ELSE "+")
        \o ToString(p \div 10) \o "." \o ToString(p % 10) \o "%)"

(***************************************************************************)
(* compare_to_markdown                                                     *)
(***************************************************************************)
\* dict.get(key)
Get(set, k) == IF k \in DOMAIN set THEN set[k] ELSE None

\* Python truth of an entry: None and the empty dict are false.
Truthy(e) == e.shape = "dict" /\ e # Entry(NoField, PAbsent, MAbsent)

\* m.get("scoreUnit", "")
UnitOf(m) == IF m.unit = NoField THEN "" ELSE m.unit

\* m.get(...) on a primaryMetric that is not a dict: AttributeError.
ScoreRaises(e) == Truthy(e) /\ e.metric.shape = "other"

\* score_and_unit that lacks the test for an entry that is not there and
\* prints str(score) of a score that is None.
score_and_unit_NoGuard(e) ==
    LET m == e.metric
    IN  IF m.score.t = "num" THEN <<Fmt6g(m.score.n), UnitOf(m)>>
        ELSE << IF m.score.t = "str" THEN m.score.s ELSE "None",
                UnitOf(m) >>

\* (score cell, unit) of an entry.
score_and_unit(e) ==
    IF ~Truthy(e) THEN <<EM_DASH, "">>
    ELSE LET m == e.metric
         IN  IF m.score.t = "num" THEN <<Fmt6g(m.score.n), UnitOf(m)>>
             ELSE << IF m.score.t = "str" THEN m.score.s ELSE EM_DASH,
                     UnitOf(m) >>

\* The score as a number, SAbsent standing for Python's None.
numeric_score(e) ==
    IF ~Truthy(e) THEN SAbsent
    ELSE IF e.metric.score.t = "num" THEN e.metric.score ELSE SAbsent

\* a or b on strings
Or(a, b) == IF a # "" THEN a ELSE b

\* ", ".join(f"{k}={v}" for k, v in params)
RECURSIVE JoinParams(_, _)
JoinParams(params, i) ==
    IF i > Len(params) THEN ""
    ELSE (IF i > 1 THEN ", " ELSE "")
         \o params[i][1] \o "=" \o ToString(params[i][2].v)
         \o JoinParams(params, i + 1)

\* One pass of the loop over keys: the cells of the row of key.
Row(base, cur, key) ==
    LET b == Get(base, key)
        c == Get(cur, key)
        bsu == score_and_unit(b)
        csu == score_and_unit(c)
        bscore == numeric_score(b)
        cscore == numeric_score(c)
        both == bscore.t = "num" /\ cscore.t = "num"
    IN  [ key |-> key,
          pstr |-> IF key[2] # <<>> THEN JoinParams(key[2], 1) ELSE EM_DASH,
          bscore_s |-> bsu[1],
          cscore_s |-> csu[1],
          delta_s |-> IF both /\ bscore.n # 0
                      THEN FmtDelta(cscore.n, bscore.n) ELSE "n/a",
          unit |-> IF both
                   THEN IF c.metric.unit # NoField THEN c.metric.unit
                        ELSE Or(bsu[2], csu[2])
                   ELSE Or(csu[2], Or(bsu[2], "")) ]

\* sorted() compares two keys that Python cannot order: TypeError.
SortRaises(keys) == \E k1 \in keys, k2 \in keys : CmpKey(k1, k2) = "err"

\* sorted(keys), for keys that Python can order.
RECURSIVE Sorted(_)
Sorted(keys) ==
    IF keys = {} THEN <<>>
    ELSE LET k == CHOOSE x \in keys :
                      \A y \in keys : CmpKey(x, y) \in {"lt", "eq"}
         IN  <<k>> \o Sorted(keys \ {k})

UnionKeys(base, cur) == DOMAIN base \cup DOMAIN cur

\* The exception compare_to_markdown raises on base and cur, "" for none.
CompareRaises(base, cur) ==
    IF SortRaises(UnionKeys(base, cur)) THEN "TypeError"
    ELSE IF \E k \in UnionKeys(base, cur) :
                ScoreRaises(Get(base, k)) \/ ScoreRaises(Get(cur, k))
         THEN "AttributeError"
    ELSE ""

\* The table compare_to_markdown returns when it raises nothing.
compare_to_markdown(base, cur, title, note) ==
    LET keys == Sorted(UnionKeys(base, cur))
    IN  [ title |-> title,
          rows |-> [i \in 1..Len(keys) |-> Row(base, cur, keys[i])],
          note |-> note ]

(***************************************************************************)
(* main                                                                    *)
(***************************************************************************)
VARIABLES
    baseline,       \* what args.baseline names
    current,        \* what args.current names
    GITHUB_OUTPUT,  \* whether the environment sets $GITHUB_OUTPUT
    pc,             \* the statement of main to run next
    loaded,         \* the inputs whose load has returned
    base,           \* main's base
    cur,            \* main's cur
    raised,         \* the exception that ended the process, "" for none
    exit,           \* the exit status, once pc = "done"
    stdout,         \* the reports printed
    stderr,         \* the diagnostics printed
    outputFile      \* what was appended to the file $GITHUB_OUTPUT names

vars == <<baseline, current, GITHUB_OUTPUT, pc, loaded, base, cur, raised,
          exit, stdout, stderr, outputFile>>

DefaultTitle == "JMH comparison (baseline vs PR)"
DefaultNote == "_Note: < 1.0x means faster on PR; > 1.0x means slower._"

\* load(path): the dict it returns, or the exception that leaves it.
\* FileNotFoundError is the one error of open() it catches; any other
\* OSError and the UnicodeDecodeError of json.load() propagate.
load(file) ==
    CASE file.kind = "missing" ->
             [raised |-> "", result |-> EmptyDict, err |-> <<>>]
      [] file.kind = "unreadable" ->
             [raised |-> "OSError", result |-> EmptyDict,
              err |-> <<"Traceback">>]
      [] file.kind = "malformed" ->
             [raised |-> "SystemExit", result |-> EmptyDict,
              err |-> <<"error: failed to parse JSON">>]
      [] file.kind = "nonlist" ->
             [raised |-> "", result |-> EmptyDict,
              err |-> <<"warning: did not contain a list; ignoring.">>]
      [] file.kind = "list" ->
             [raised |-> "", result |-> LoadFrom(file.data, 1, EmptyDict),
              err |-> <<>>]

\* The status the interpreter exits with when exc leaves main.
ExitStatus(exc) == IF exc = "SystemExit" THEN 2 ELSE 1

Init ==
    /\ baseline \in Files(MaxElems)
    /\ current \in Files(MaxElems - Len(baseline.data))
    /\ GITHUB_OUTPUT \in BOOLEAN
    /\ pc = "load_base"
    /\ loaded = {}
    /\ base = EmptyDict
    /\ cur = EmptyDict
    /\ raised = ""
    /\ exit = 0
    /\ stdout = <<>>
    /\ stderr = <<>>
    /\ outputFile = <<>>

\* base = load(args.baseline)
LoadBaseline ==
    /\ pc = "load_base"
    /\ LET r == load(baseline)
       IN  /\ stderr' = stderr \o r.err
           /\ raised' = r.raised
           /\ IF r.raised = ""
              THEN /\ base' = r.result
                   /\ loaded' = loaded \cup {"baseline"}
                   /\ pc' = "load_cur"
                   /\ exit' = exit
              ELSE /\ pc' = "done"
                   /\ exit' = ExitStatus(r.raised)
                   /\ UNCHANGED <<base, loaded>>
    /\ UNCHANGED <<baseline, current, GITHUB_OUTPUT, cur, stdout, outputFile>>

\* cur = load(args.current)
LoadCurrent ==
    /\ pc = "load_cur"
    /\ LET r == load(current)
       IN  /\ stderr' = stderr \o r.err
           /\ raised' = r.raised
           /\ IF r.raised = ""
              THEN /\ cur' = r.result
                   /\ loaded' = loaded \cup {"current"}
                   /\ pc' = "report"
                   /\ exit' = exit
              ELSE /\ pc' = "done"
                   /\ exit' = ExitStatus(r.raised)
                   /\ UNCHANGED <<cur, loaded>>
    /\ UNCHANGED <<baseline, current, GITHUB_OUTPUT, base, stdout, outputFile>>

\* The rest of main: the both-empty test, compare_to_markdown, print.
Report ==
    /\ pc = "report"
    /\ pc' = "done"
    /\ IF DOMAIN base = {} /\ DOMAIN cur = {}
       THEN /\ stderr' = Append(stderr, "error: neither baseline nor current results could be loaded.")
            /\ exit' = 1
            /\ UNCHANGED <<raised, stdout>>
       ELSE LET exc == CompareRaises(base, cur)
            IN  IF exc # ""
                THEN /\ raised' = exc
                     /\ exit' = ExitStatus(exc)
                     /\ stderr' = Append(stderr, "Traceback")
                     /\ UNCHANGED stdout
                ELSE /\ stdout' = Append(stdout,
                            compare_to_markdown(base, cur, DefaultTitle, DefaultNote))
                     /\ exit' = 0
                     /\ UNCHANGED <<raised, stderr>>
    /\ UNCHANGED <<baseline, current, GITHUB_OUTPUT, loaded, base, cur, outputFile>>

Next == LoadBaseline \/ LoadCurrent \/ Report

Spec == Init /\ [][Next]_vars

(***************************************************************************)
(* Properties                                                              *)
(***************************************************************************)
BothLoaded == loaded = {"baseline", "current"}

\* main has called compare_to_markdown and the process has ended.
Compared ==
    pc = "done" /\ BothLoaded /\ ~(DOMAIN base = {} /\ DOMAIN cur = {})

Reported == stdout # <<>>

\* The data rows of the report printed.
Rows == IF Reported THEN stdout[1].rows ELSE <<>>

RowKeys == { Rows[i].key : i \in 1..Len(Rows) }

\* The entry has a numeric score.
HasNumber(e) ==
    e.shape = "dict" /\ e.metric.shape = "dict" /\ e.metric.score.t = "num"

\* The unit the entry declares, "" for none.
DeclaredUnit(e) ==
    IF e.shape = "dict" /\ e.metric.shape = "dict" /\ e.metric.unit # NoField
    THEN e.metric.unit ELSE ""

\* The score cell of an entry that is there: six significant digits of a
\* number, the text of another value, the em dash for no score.
ShownScore(e) ==
    IF HasNumber(e) THEN Fmt6g(e.metric.score.n)
    ELSE IF e.metric.shape = "dict" /\ e.metric.score.t = "str"
         THEN e.metric.score.s
    ELSE EM_DASH

\* C1: whenever compare_to_markdown is called, the report has exactly one
\* row per key of base or cur and no other row, and the rows are in strictly
\* ascending key order.
C1_RowsAreSortedUnion ==
    Compared =>
        /\ Reported
        /\ RowKeys = UnionKeys(base, cur)
        /\ Len(Rows) = Cardinality(UnionKeys(base, cur))
        /\ \A i \in 1..(Len(Rows) - 1) :
               CmpKey(Rows[i].key, Rows[i + 1].key) = "lt"

\* C2: the delta cell of a row is the ratio current / baseline exactly when
\* both entries have a numeric score and the baseline score is not zero, it
\* is "n/a" in every other case, and getting at the scores never fails.
C2_DeltaIffBothNumeric ==
    Compared =>
        /\ raised # "AttributeError"
        /\ \A i \in 1..Len(Rows) :
               LET b == Get(base, Rows[i].key)
                   c == Get(cur, Rows[i].key)
               IN  IF HasNumber(b) /\ HasNumber(c) /\ b.metric.score.n # 0
                   THEN Rows[i].delta_s
                            = FmtDelta(c.metric.score.n, b.metric.score.n)
                   ELSE Rows[i].delta_s = "n/a"

\* C3: the Unit cell of every row is the unit of the current entry when
\* that entry declares a non-empty unit, otherwise the unit of the baseline
\* entry, otherwise empty.
C3_UnitPrefersCurrent ==
    \A i \in 1..Len(Rows) :
        LET b == Get(base, Rows[i].key)
            c == Get(cur, Rows[i].key)
        IN  Rows[i].unit = IF DeclaredUnit(c) # "" THEN DeclaredUnit(c)
                           ELSE DeclaredUnit(b)

\* C4: when both inputs are lists and at least one record was loaded, no
\* element of either list makes the run raise: it prints the report and
\* exits with status 0.
C4_AnomaliesNeverAbort ==
    (pc = "done" /\ baseline.kind = "list" /\ current.kind = "list"
        /\ \E i \in 1..Len(baseline.data \o current.data) :
               (baseline.data \o current.data)[i].shape = "dict")
    => (raised = "" /\ exit = 0 /\ Reported)

\* C5: after both loads, two empty sets end the run with status 1 and no
\* report, and exactly one empty set ends it with status 0 and a report of
\* one row per key of the other set.
C5_BothEmptyFails ==
    (pc = "done" /\ BothLoaded) =>
        /\ (DOMAIN base = {} /\ DOMAIN cur = {}) => (exit = 1 /\ ~Reported)
        /\ ((DOMAIN base = {}) # (DOMAIN cur = {})) =>
               /\ exit = 0
               /\ Reported
               /\ RowKeys = UnionKeys(base, cur)
               /\ Len(Rows) = Cardinality(UnionKeys(base, cur))

\* C6: a run one of whose inputs is not parsable ends with status 2 and no
\* report, whatever the other input is, and a baseline that is not parsable
\* ends it before the current input is loaded.
C6_MalformedExitsTwo ==
    (pc = "done" /\ "malformed" \in {baseline.kind, current.kind}) =>
        /\ exit = 2
        /\ ~Reported
        /\ outputFile = <<>>
        /\ baseline.kind = "malformed" => "current" \notin loaded

\* C7: a successful run appends the report to the file $GITHUB_OUTPUT names
\* and prints nothing when the variable is set, and prints the report when
\* it is not set.
C7_OutputDestination ==
    (pc = "done" /\ exit = 0) =>
        IF GITHUB_OUTPUT
        THEN outputFile # <<>> /\ stdout = <<>>
        ELSE outputFile = <<>> /\ Len(stdout) = 1

\* C8: the load of an input that is absent or cannot be read returns the
\* empty set and ends the run with no error.
C8_UnreadableLoadsEmpty ==
    /\ (pc # "load_base" /\ baseline.kind \in {"missing", "unreadable"}) =>
           ("baseline" \in loaded /\ DOMAIN base = {})
    /\ (pc \in {"report", "done"} /\ "baseline" \in loaded
           /\ current.kind \in {"missing", "unreadable"}) =>
           ("current" \in loaded /\ DOMAIN cur = {})

\* C9: in a row whose key one side does not have, the score cell of that
\* side is the em dash, the score cell of the other side is that entry's own
\* formatted score and the delta cell is "n/a"; an entry that is there
\* without a primary metric or without a score shows the em dash too.
C9_MissingDataGuard ==
    \A i \in 1..Len(Rows) :
        LET k == Rows[i].key
        IN  /\ k \notin DOMAIN base =>
                 /\ Rows[i].bscore_s = EM_DASH
                 /\ Rows[i].cscore_s = ShownScore(cur[k])
                 /\ Rows[i].delta_s = "n/a"
            /\ k \notin DOMAIN cur =>
                 /\ Rows[i].cscore_s = EM_DASH
                 /\ Rows[i].bscore_s = ShownScore(base[k])
                 /\ Rows[i].delta_s = "n/a"
            /\ (k \in DOMAIN base /\ base[k].metric.score.t = "absent") =>
                 Rows[i].bscore_s = EM_DASH
            /\ (k \in DOMAIN cur /\ cur[k].metric.score.t = "absent") =>
                 Rows[i].cscore_s = EM_DASH

\* A report has a row of a key only the baseline has, with a score on the
\* baseline side, and a row of a key only the current input has.
C9_Witness ==
    /\ \E i \in 1..Len(Rows) :
           /\ Rows[i].key \notin DOMAIN cur
           /\ Rows[i].bscore_s \notin {EM_DASH, "n/a"}
           /\ Rows[i].cscore_s = EM_DASH
    /\ \E i \in 1..Len(Rows) : Rows[i].key \notin DOMAIN base

\* k is the identity key of entry e: the name, "" when there is none, and
\* the parameters in ascending name order, none when params is no mapping.
IsKeyOf(k, e) ==
    LET items == IF e.params.shape = "dict" THEN e.params.items ELSE <<>>
    IN  /\ k[1] = (IF e.bench = NoField THEN "" ELSE e.bench)
        /\ Len(k[2]) = Len(items)
        /\ { k[2][j] : j \in 1..Len(k[2]) } = { items[j] : j \in 1..Len(items) }
        /\ \A j \in 1..(Len(k[2]) - 1) :
               StrRank(k[2][j][1]) < StrRank(k[2][j + 1][1])

\* set holds, under each key of a record of data, the last such record.
LastWriteWins(data, set) ==
    LET recs == { i \in 1..Len(data) : data[i].shape = "dict" }
    IN  /\ \A i \in recs : \E k \in DOMAIN set : IsKeyOf(k, data[i])
        /\ \A k \in DOMAIN set :
               \E i \in recs :
                   /\ IsKeyOf(k, data[i])
                   /\ set[k] = data[i]
                   /\ \A j \in recs : j > i => ~IsKeyOf(k, data[j])

\* C10: once load has returned, the set holds exactly the identity keys of
\* the record-shaped elements of the list, each with the last element of
\* that key; other elements are skipped.
C10_LastWriteWins ==
    /\ "baseline" \in loaded => LastWriteWins(baseline.data, base)
    /\ "current" \in loaded => LastWriteWins(current.data, cur)

\* The baseline list holds two different records of one key and a
\* non-record, and its load has returned.
C10_Witness ==
    /\ "baseline" \in loaded
    /\ \E i, j \in 1..Len(baseline.data) :
           /\ i < j
           /\ baseline.data[i].shape = "dict"
           /\ baseline.data[j].shape = "dict"
           /\ baseline.data[i] # baseline.data[j]
           /\ KeyOf(baseline.data[i]) = KeyOf(baseline.data[j])
           /\ base[KeyOf(baseline.data[j])] = baseline.data[j]
    /\ \E i \in 1..Len(baseline.data) : baseline.data[i].shape = "other"

====
